---- MODULE Spec2Model ----
(***************************************************************************)
(* The creator recommendation engine of the marketplace backend            *)
(* (src/backend/recommendation_service.py) together with the relational    *)
(* tables it reads and writes (src/backend/models.py) and the HTTP         *)
(* handlers that call it (src/backend/main.py).                            *)
(*                                                                         *)
(* Requests are served by an asyncio event loop: a handler runs until it   *)
(* awaits the database, and other handlers run while it waits.  Each       *)
(* request slot below is one in-flight handler with its own database       *)
(* session; an action is the code between two awaits that matter.          *)
(***************************************************************************)
EXTENDS Integers, Sequences, FiniteSets, TLC

(***************************************************************************)
(* Bounds of the model.                                                    *)
(***************************************************************************)
NumProcs == 2        \* request slots (handlers in flight at the same time)
MaxOps == 3          \* handler invocations in one behaviour of Spec
MaxClock == 30       \* last clock value, in minutes
TickMinutes == 15    \* minutes the clock advances in one step
HistLen == 3         \* completed calls remembered for comparison
ObservedOps == 5     \* handler invocations in one behaviour of SpecObserved
NumPruneKeys == 15   \* distinct fingerprints one business sends in SpecPrune

(***************************************************************************)
(* Program constants.                                                      *)
(***************************************************************************)
cache_duration_minutes == 30
KeepRecent == 10

NULL == -1           \* SQL NULL / Python None in an integer column

(***************************************************************************)
(* Reference data: the rows of users_businesses, users_creators, niches,   *)
(* industries, creator_niches, industry_niches, instagram_creator_socials. *)
(* The engine only reads them.                                             *)
(***************************************************************************)
Businesses == {1, 2}
Creators == {1, 2, 3, 4}
Industries == {1, 2}

\* industry_niches: industry id -> niche ids
IndustryNiches == (1 :> {1, 2}) @@ (2 :> {2, 3})

\* creator_niches: creator id -> niche ids
CreatorNiches == (1 :> {1}) @@ (2 :> {1, 2}) @@ (3 :> {1, 2}) @@ (4 :> {3, 4})

\* users_creators.created_at (creators 2 and 3 were seeded in one statement)
CreatorCreatedAt == (1 :> 3) @@ (2 :> 1) @@ (3 :> 1) @@ (4 :> 2)

\* instagram_creator_socials: at most one row per (user_id, platform); the
\* rows of creator 4 are of two platforms
SocialRows ==
    { [id |-> 1, user_id |-> 1, followers_count |-> 900, engagement_rate |-> 5],
      [id |-> 2, user_id |-> 2, followers_count |-> 100, engagement_rate |-> 2],
      [id |-> 3, user_id |-> 4, followers_count |-> 50, engagement_rate |-> 1],
      [id |-> 4, user_id |-> 4, followers_count |-> 800, engagement_rate |-> 4] }

\* the creators whose name or bio contains the search text (ILIKE '%q%')
SearchMatches == ("q" :> {1, 3}) @@ ("zz" :> {})

\* similarity(users_creators.name, q) of pg_trgm, scaled to an integer
NameSimilarity == ("q" :> ((1 :> 2) @@ (2 :> 0) @@ (3 :> 7) @@ (4 :> 0))) @@
                  ("zz" :> ((1 :> 0) @@ (2 :> 0) @@ (3 :> 0) @@ (4 :> 0)))

\* business_industries before any profile change
InitialIndustries == (1 :> {1}) @@ (2 :> {})

(***************************************************************************)
(* Sequences helpers.                                                      *)
(***************************************************************************)
Range(s) == { s[i] : i \in DOMAIN s }

\* every arrangement of the finite set S as a sequence without repetition
Orders(S) ==
    { s \in [1..Cardinality(S) -> S] :
        \A i, j \in 1..Cardinality(S) : i # j => s[i] # s[j] }

\* Python s[offset:offset+limit] for offset >= 0, limit >= 0
Slice(s, offset, limit) ==
    LET lo == IF offset < Len(s) THEN offset + 1 ELSE Len(s) + 1
        hi == IF offset + limit < Len(s) THEN offset + limit ELSE Len(s)
    IN  IF lo > hi THEN << >> ELSE SubSeq(s, lo, hi)

\* the subsequence of s whose elements satisfy membership in S
RECURSIVE FilterIn(_, _)
FilterIn(s, S) ==
    IF s = << >> THEN << >>
    ELSE IF Head(s) \in S THEN << Head(s) >> \o FilterIn(Tail(s), S)
         ELSE FilterIn(Tail(s), S)

RECURSIVE FilterOut(_, _)
FilterOut(s, S) ==
    IF s = << >> THEN << >>
    ELSE IF Head(s) \notin S THEN << Head(s) >> \o FilterOut(Tail(s), S)
         ELSE FilterOut(Tail(s), S)

(***************************************************************************)
(* json.dumps / json.loads of a list of creator ids (the Text column       *)
(* recommendation_cache.creator_ids).  The text is a sequence of tokens.   *)
(***************************************************************************)
Digits == << "1", "2", "3", "4", "5", "6", "7", "8", "9" >>

RECURSIVE JsonItems(_)
JsonItems(ids) ==
    IF ids = << >> THEN << >>
    ELSE IF Len(ids) = 1 THEN << Digits[Head(ids)] >>
         ELSE << Digits[Head(ids)], "," >> \o JsonItems(Tail(ids))

json_dumps(ids) == << "[" >> \o JsonItems(ids) \o << "]" >>

DigitValue(tok) == CHOOSE d \in DOMAIN Digits : Digits[d] = tok

RECURSIVE JsonParseItems(_)
JsonParseItems(toks) ==
    IF toks = << >> THEN << >>
    ELSE IF Head(toks) = "," THEN JsonParseItems(Tail(toks))
         ELSE << DigitValue(Head(toks)) >> \o JsonParseItems(Tail(toks))

json_loads(text) == JsonParseItems(SubSeq(text, 2, Len(text) - 1))

(***************************************************************************)
(* Filters: a Python dict, modelled as the sequence of its (key, value)    *)
(* pairs in insertion order.  A value is a sequence of integers: a scalar  *)
(* v is << v >>, the niches list is the list itself.                       *)
(***************************************************************************)
FilterKeyRank == [ engagement_rate |-> 1, location |-> 2, max_followers |-> 3,
                   min_followers |-> 4, niches |-> 5, socials |-> 6 ]

HasKey(filters, k) == \E i \in DOMAIN filters : filters[i][1] = k

Get(filters, k) == (CHOOSE i \in DOMAIN filters : filters[i][1] = k)

ValueOf(filters, k) == filters[Get(filters, k)][2]

\* Python truthiness of filters[k]: a number is true unless 0, a list unless empty
Truthy(filters, k) ==
    /\ HasKey(filters, k)
    /\ IF k = "niches" THEN ValueOf(filters, k) # << >>
       ELSE ValueOf(filters, k)[1] # 0

SortedPairsAlt(filters) == filters

\* json.dumps(..., sort_keys=True): the pairs in key order
SortedPairs(filters) ==
    CHOOSE s \in Orders(Range(filters)) :
        \A i, j \in DOMAIN s :
            i < j => FilterKeyRank[s[i][1]] < FilterKeyRank[s[j][1]]

\* _create_cache_key: the digest of the canonical text; the digest is taken
\* to be injective, so the canonical text stands for it.  None and '' give
\* the same text (search_query or '').
_create_cache_key(business_id, search_query, filters) ==
    << search_query, SortedPairs(filters) >>

(***************************************************************************)
(* The scoring query of _generate_recommendations.                         *)
(***************************************************************************)
NoSocial ==
    [id |-> NULL, user_id |-> NULL, followers_count |-> NULL, engagement_rate |-> NULL]

\* LEFT OUTER JOIN instagram_creator_socials ON users_creators.id = user_id
OuterSocials(c) ==
    IF { s \in SocialRows : s.user_id = c } = {} THEN { NoSocial }
    ELSE { s \in SocialRows : s.user_id = c }

\* users_creators JOIN creator_niches LEFT OUTER JOIN instagram_creator_socials
JoinedRows ==
    { [creator |-> c, niche |-> n, social |-> s] :
        c \in Creators, n \in UNION { CreatorNiches[x] : x \in Creators },
        s \in SocialRows \cup { NoSocial } }

Joined ==
    { r \in JoinedRows :
        r.niche \in CreatorNiches[r.creator] /\ r.social \in OuterSocials(r.creator) }

\* _apply_filters: a predicate is added only when the key is present and its
\* value is truthy; a comparison with NULL is not true
_apply_filters(r, filters) ==
    /\ Truthy(filters, "min_followers") =>
          /\ r.social.followers_count # NULL
          /\ r.social.followers_count >= ValueOf(filters, "min_followers")[1]
    /\ Truthy(filters, "max_followers") =>
          /\ r.social.followers_count # NULL
          /\ r.social.followers_count <= ValueOf(filters, "max_followers")[1]
    /\ Truthy(filters, "engagement_rate") =>
          /\ r.social.engagement_rate # NULL
          /\ r.social.engagement_rate >= ValueOf(filters, "engagement_rate")[1]
    /\ Truthy(filters, "niches") =>
          r.niche \in Range(ValueOf(filters, "niches"))

QueryRowsAnyNiche(relevant_niche_ids, search_query, filters) ==
    { r \in Joined :
        /\ (search_query # "" => r.creator \in SearchMatches[search_query])
        /\ (filters # << >> => _apply_filters(r, filters)) }

\* the WHERE clause: candidate niches, the search text, the filters
QueryRows(relevant_niche_ids, search_query, filters) ==
    { r \in Joined :
        /\ r.niche \in relevant_niche_ids
        /\ (search_query # "" => r.creator \in SearchMatches[search_query])
        /\ (filters # << >> => _apply_filters(r, filters)) }

\* count(creator_niches.niche_id) of the creator's group
niche_match_count(rows, c) == Cardinality({ r \in rows : r.creator = c })

\* ORDER BY: whether creator a must come before creator b
SortsBefore(rows, search_query, a, b) ==
    LET sa == IF search_query # "" THEN NameSimilarity[search_query][a] ELSE 0
        sb == IF search_query # "" THEN NameSimilarity[search_query][b] ELSE 0
        ca == niche_match_count(rows, a)
        cb == niche_match_count(rows, b)
    IN  \/ sa > sb
        \/ sa = sb /\ ca > cb
        \/ sa = sb /\ ca = cb /\ CreatorCreatedAt[a] > CreatorCreatedAt[b]

\* the id column of every row order the database may return: GROUP BY
\* creator, sorted by the ORDER BY keys, rows with equal keys in any order
QueryResults(relevant_niche_ids, search_query, filters) ==
    LET rows == QueryRows(relevant_niche_ids, search_query, filters)
        ids == { r.creator : r \in rows }
    IN  { s \in Orders(ids) :
            \A i, j \in DOMAIN s :
                i < j => ~ SortsBefore(rows, search_query, s[j], s[i]) }

\* fresh creators first, then viewed creators, each in query order
PartitionViewedAlt(scored, viewed_creator_ids) == scored

PartitionViewed(scored, viewed_creator_ids) ==
    FilterOut(scored, viewed_creator_ids) \o FilterIn(scored, viewed_creator_ids)

(***************************************************************************)
(* State.                                                                  *)
(***************************************************************************)
VARIABLES
    now,           \* datetime.utcnow(), in minutes
    stamp,         \* the database's now() of the latest transaction that matters
    industries,    \* business_industries: business id -> industry ids
    interactions,  \* business_creator_interactions: rows per (business, creator)
    cache,         \* recommendation_cache: the set of its rows
    nextId,        \* the next recommendation_cache.id
    req,           \* the request slots: one in-flight handler each
    ops,           \* handler invocations still allowed in this behaviour
    last,          \* the outcome of the latest completed get_recommendations call
    marked,        \* per pair: completed mark_creator_viewed calls, and whether
                   \* two calls for the pair were ever in flight together
    observed,      \* whether hist is kept
    hist,          \* the latest completed get_recommendations calls, oldest first
    pruned,        \* the rows the latest _cache_recommendations call deleted
    hyd            \* a _get_creators_by_ids call: its input, the rows, its result

vars == << now, stamp, industries, interactions, cache, nextId, req, ops,
           last, marked, observed, hist, pruned, hyd >>

Procs == 1..NumProcs

\* the (business, search_query, filters) triples callers send
Requests ==
    { [business_id |-> 1, search_query |-> "", filters |-> << >>],
      [business_id |-> 2, search_query |-> "", filters |-> << >>] }

\* the (business, creator) pairs mark-viewed is called with
Marks == { << 1, 2 >>, << 1, 3 >>, << 2, 1 >> }

\* the (offset, limit) pairs callers send
Pages == { << 0, 1 >>, << 1, 1 >>, << 0, 2 >> }

Idle ==
    [ pc |-> "idle", business_id |-> 0, search_query |-> "",
      filters |-> << >>, creator_id |-> 0, txn |-> 0, cached |-> 0,
      scored |-> << >>, viewed |-> {}, creator_ids |-> << >>,
      entries |-> {}, follows |-> FALSE ]

\* no _get_creators_by_ids call is looked at
NoHydration ==
    [ pc |-> "none", creator_ids |-> << >>, existing |-> {}, result |-> << >>,
      out |-> << >> ]

\* before any call has completed
NoCall ==
    [ business_id |-> 0, status |-> 0, path |-> "none", read |-> 0, wrote |-> 0,
      offset |-> 0, limit |-> 0, ret |-> << >> ]

InitState ==
    /\ now = 0
    /\ stamp = 0
    /\ industries = InitialIndustries
    /\ interactions = [b \in Businesses |-> [c \in Creators |-> 0]]
    /\ cache = {}
    /\ nextId = 1
    /\ req = [p \in Procs |-> Idle]
    /\ last = NoCall
    /\ marked = [m \in Businesses \X Creators |-> [done |-> 0, raced |-> FALSE]]
    /\ hist = << >>
    /\ pruned = {}

Init == InitState /\ ops = MaxOps /\ observed = FALSE /\ hyd = NoHydration

\* slots are interchangeable: a handler takes the lowest idle one
Free(p) ==
    /\ req[p].pc = "idle"
    /\ \A q \in Procs : q < p => req[q].pc # "idle"
    /\ ops > 0

(***************************************************************************)
(* Cache reads and writes.                                                 *)
(***************************************************************************)
LiveAnyBusiness(business_id, cache_key) ==
    { r \in cache : r.cache_key = cache_key /\ r.expires_at > now }

\* the WHERE clause of _get_from_cache
LiveAlt(business_id, cache_key) ==
    { r \in cache : r.business_id = business_id /\ r.cache_key = cache_key }

Live(business_id, cache_key) ==
    { r \in cache :
        /\ r.business_id = business_id
        /\ r.cache_key = cache_key
        /\ r.expires_at > now }

\* ordered by last_accessed instead
OldEntriesAlt(business_id) ==
    LET mine == { r \in cache : r.business_id = business_id }
    IN  { r \in mine :
            Cardinality({ x \in mine : x.last_accessed > r.last_accessed })
                >= KeepRecent }

\* old_entries of _cache_recommendations: the business's rows ordered by
\* created_at descending, without the first KeepRecent
OldEntries(business_id) ==
    LET mine == { r \in cache : r.business_id = business_id }
    IN  { r \in mine :
            Cardinality({ x \in mine : x.created_at > r.created_at }) >= KeepRecent }

\* a row holding the first id only
NewEntryAlt(business_id, cache_key, creator_ids, txn) ==
    [ id |-> nextId, business_id |-> business_id, cache_key |-> cache_key,
      creator_ids |-> json_dumps(Slice(creator_ids, 0, 1)), created_at |-> txn,
      expires_at |-> now + cache_duration_minutes, last_accessed |-> now ]

\* the row _cache_recommendations adds
NewEntry(business_id, cache_key, creator_ids, txn) ==
    [ id |-> nextId, business_id |-> business_id, cache_key |-> cache_key,
      creator_ids |-> json_dumps(creator_ids), created_at |-> txn,
      expires_at |-> now + cache_duration_minutes, last_accessed |-> now ]

\* a read that also moves expires_at
TouchAlt(row) ==
    [row EXCEPT !.last_accessed = now,
                !.expires_at = now + cache_duration_minutes]

\* cache_entry.last_accessed = datetime.utcnow(); commit
Touch(row) == [row EXCEPT !.last_accessed = now]

\* a completed get_recommendations call of slot r: the HTTP status of the
\* response, the path the call took, the row it read and the row it wrote
\* (0: none), and the page returned
Outcome(r, pg, path, wrote, list) ==
    [ business_id |-> r.business_id, status |-> 200, path |-> path,
      read |-> r.cached, wrote |-> wrote, offset |-> pg[1],
      limit |-> pg[2], ret |-> Slice(list, pg[1], pg[2]) ]

\* the same call as remembered in hist: its business, its filters as sent
\* and its cache key, the page asked for and returned, the time, and the
\* expires_at of the row it was served from or wrote
Call(r, pg, list, exp) ==
    [ business_id |-> r.business_id,
      filters |-> r.filters,
      cache_key |-> _create_cache_key(r.business_id, r.search_query, r.filters),
      offset |-> pg[1], limit |-> pg[2],
      ret |-> Slice(list, pg[1], pg[2]), at |-> now, exp |-> exp ]

\* hist after a call completes: a call that began before the previous one
\* ended (it does not follow it) starts the record afresh
Remember(follows, call) ==
    LET h == IF follows THEN Append(hist, call) ELSE << call >>
    IN  IF ~ observed THEN hist
        ELSE IF Len(h) > HistLen THEN Tail(h) ELSE h

\* slot p is idle again, and the other slots no longer follow the latest
\* completed call
Completed(p) ==
    [q \in Procs |-> IF q = p THEN Idle
                     ELSE [req[q] EXCEPT !.follows = FALSE]]

(***************************************************************************)
(* GET /recommendations -> RecommendationService.get_recommendations       *)
(***************************************************************************)
\* The handler looks the business up (its transaction begins), builds the
\* cache key and reads the cache.  result.scalar() takes the first row of a
\* SELECT without ORDER BY: any of the live rows.  On a row, last_accessed
\* is set and committed; a non-empty list is sliced and returned, while None
\* and the empty list both fall through to a fresh generation.  offset and
\* limit (pg) are used only where a list is sliced.
GetFromCache(p, rq, pg) ==
    /\ Free(p)
    /\ ops' = ops - 1
    /\ stamp' = stamp + 1
    /\ LET b == rq.business_id
           key == _create_cache_key(b, rq.search_query, rq.filters)
           r0 == [Idle EXCEPT !.business_id = b,
                              !.search_query = rq.search_query,
                              !.filters = rq.filters,
                              !.follows = observed]
       IN  \/ /\ Live(b, key) = {}
              /\ req' = [req EXCEPT ![p] =
                            [r0 EXCEPT !.pc = "generate", !.txn = stamp + 1]]
              /\ UNCHANGED << cache, last, hist >>
           \/ \E row \in Live(b, key) :
                LET cached_ids == json_loads(row.creator_ids)
                    r1 == [r0 EXCEPT !.cached = row.id]
                    call == Call(r1, pg, cached_ids, row.expires_at)
                IN  /\ cache' = (cache \ {row}) \cup { Touch(row) }
                    /\ IF cached_ids # << >>
                       THEN /\ req' = Completed(p)
                            /\ last' = Outcome(r1, pg, "hit", 0, cached_ids)
                            /\ hist' = Remember(TRUE, call)
                       ELSE /\ req' = [req EXCEPT ![p] =
                                          [r1 EXCEPT !.pc = "generate"]]
                            /\ UNCHANGED << last, hist >>
    /\ UNCHANGED << now, industries, interactions, nextId, marked, observed, pruned, hyd >>

\* the creators with exactly one interaction row
viewed_creator_idsAlt(b) == { c \in Creators : interactions[b][c] = 1 }

\* SELECT DISTINCT creator_id of the business's interaction rows
viewed_creator_ids(b) == { c \in Creators : interactions[b][c] > 0 }

\* _generate_recommendations: the business with its industries, the viewed
\* creators, the scoring query, the partition.  After a committed cache read
\* the session begins a new transaction here.
Generate(p) ==
    /\ req[p].pc = "generate"
    /\ LET r == req[p]
           b == r.business_id
           viewed == viewed_creator_ids(b)
           relevant_niche_ids == UNION { IndustryNiches[i] : i \in industries[b] }
           begun == IF r.txn = 0 THEN stamp + 1 ELSE r.txn
       IN  /\ stamp' = IF r.txn = 0 THEN stamp + 1 ELSE stamp
           /\ IF b \notin Businesses \/ industries[b] = {}
              THEN req' = [req EXCEPT ![p] =
                             [r EXCEPT !.pc = "write", !.txn = begun,
                                       !.creator_ids = << >>]]
              ELSE \E scored \in QueryResults(relevant_niche_ids,
                                              r.search_query, r.filters) :
                     req' = [req EXCEPT ![p] =
                               [r EXCEPT !.pc = "write", !.txn = begun,
                                         !.viewed = viewed,
                                         !.scored = scored,
                                         !.creator_ids =
                                            PartitionViewed(scored, viewed)]]
    /\ UNCHANGED << now, industries, interactions, cache, nextId, ops, last,
                    marked, observed, hist, pruned, hyd >>

\* _cache_recommendations, then the page of the fresh list is returned
CacheRecommendations(p, pg) ==
    /\ req[p].pc = "write"
    /\ LET r == req[p]
           key == _create_cache_key(r.business_id, r.search_query, r.filters)
           entry == NewEntry(r.business_id, key, r.creator_ids, r.txn)
           call == Call(r, pg, r.creator_ids, entry.expires_at)
       IN  /\ cache' = (cache \ OldEntries(r.business_id)) \cup { entry }
           /\ pruned' = OldEntries(r.business_id)
           /\ nextId' = nextId + 1
           /\ req' = Completed(p)
           /\ last' = Outcome(r, pg, "fresh", entry.id, r.creator_ids)
           /\ hist' = Remember(r.follows, call)
    /\ UNCHANGED << now, stamp, industries, interactions, ops, marked, observed,
                    hyd >>

(***************************************************************************)
(* POST /recommendations/mark-viewed -> mark_creator_viewed                *)
(***************************************************************************)
ExistingAlt(b, c) == FALSE

\* the SELECT of mark_creator_viewed found a row
Existing(b, c) == interactions[b][c] > 0

\* another mark_creator_viewed call for the pair is in flight
InFlight(b, c) ==
    \E q \in Procs : /\ req[q].pc = "mv_insert"
                     /\ req[q].business_id = b
                     /\ req[q].creator_id = c

\* the handler checks that the creator exists, then mark_creator_viewed
\* looks for an interaction of the pair; with one it returns
MarkCheck(p, b, c) ==
    /\ Free(p)
    /\ ops' = ops - 1
    /\ req' = [req EXCEPT ![p] =
                 IF Existing(b, c) THEN Idle
                 ELSE [Idle EXCEPT !.pc = "mv_insert", !.business_id = b,
                                   !.creator_id = c]]
    /\ marked' = [marked EXCEPT
                    ![<< b, c >>].raced = @ \/ InFlight(b, c),
                    ![<< b, c >>].done = IF Existing(b, c) THEN @ + 1 ELSE @]
    /\ hist' = << >>
    /\ UNCHANGED << now, stamp, industries, interactions, cache, nextId, last,
                    observed, pruned, hyd >>

\* the rows of the table after db.add(interaction); commit
InsertInteraction(b, c) == [interactions EXCEPT ![b][c] = @ + 1]

MarkInsertAlt(p) ==
    /\ req[p].pc = "mv_insert"
    /\ interactions' = InsertInteraction(req[p].business_id, req[p].creator_id)
    /\ cache' = { r \in cache : r.business_id # req[p].business_id }
    /\ marked' = [marked EXCEPT
                    ![<< req[p].business_id, req[p].creator_id >>].done = @ + 1]
    /\ req' = [req EXCEPT ![p] = Idle]
    /\ hist' = << >>
    /\ UNCHANGED << now, stamp, industries, nextId, ops, last, observed, pruned, hyd >>

\* db.add(interaction); commit
MarkInsert(p) ==
    /\ req[p].pc = "mv_insert"
    /\ interactions' = InsertInteraction(req[p].business_id, req[p].creator_id)
    /\ marked' = [marked EXCEPT
                    ![<< req[p].business_id, req[p].creator_id >>].done = @ + 1]
    /\ req' = [req EXCEPT ![p] = Idle]
    /\ hist' = << >>
    /\ UNCHANGED << now, stamp, industries, cache, nextId, ops, last, observed,
                    pruned, hyd >>

(***************************************************************************)
(* DELETE /recommendations/cache -> invalidate_cache                       *)
(***************************************************************************)
\* the SELECT of the business's rows
InvalidateSelect(p, b) ==
    /\ Free(p)
    /\ ops' = ops - 1
    /\ req' = [req EXCEPT ![p] =
                 [Idle EXCEPT !.pc = "inv_delete", !.business_id = b,
                              !.entries = { r.id : r \in
                                  { x \in cache : x.business_id = b } }]]
    /\ hist' = << >>
    /\ UNCHANGED << now, stamp, industries, interactions, cache, nextId, last,
                    marked, observed, pruned, hyd >>

\* db.delete of each selected row; commit
InvalidateDelete(p) ==
    /\ req[p].pc = "inv_delete"
    /\ cache' = { r \in cache : r.id \notin req[p].entries }
    /\ req' = [req EXCEPT ![p] = Idle]
    /\ hist' = << >>
    /\ UNCHANGED << now, stamp, industries, interactions, nextId, ops, last,
                    marked, observed, pruned, hyd >>

(***************************************************************************)
(* Time passes.                                                            *)
(***************************************************************************)
Tick ==
    /\ now + TickMinutes <= MaxClock
    /\ now' = now + TickMinutes
    /\ UNCHANGED << stamp, industries, interactions, cache, nextId, req, ops,
                    last, marked, observed, hist, pruned, hyd >>

(***************************************************************************)
(* The server: any handler may run for any caller, and time passes.        *)
(***************************************************************************)
\* the handlers, for callers that send the requests Rq, mark the pairs Mk
\* and clear the caches of the businesses Bs
Serve(Rq, Mk, Bs) ==
    \/ \E p \in Procs, rq \in Rq, pg \in Pages : GetFromCache(p, rq, pg)
    \/ \E p \in Procs : Generate(p)
    \/ \E p \in Procs, pg \in Pages : CacheRecommendations(p, pg)
    \/ \E p \in Procs, m \in Mk : MarkCheck(p, m[1], m[2])
    \/ \E p \in Procs : MarkInsert(p)
    \/ \E p \in Procs, b \in Bs : InvalidateSelect(p, b)
    \/ \E p \in Procs : InvalidateDelete(p)

Next == Serve(Requests, Marks, Businesses) \/ Tick

Spec == Init /\ [][Next]_vars

\* one business searching by text as well
SearchRequests ==
    { [business_id |-> 1, search_query |-> "", filters |-> << >>],
      [business_id |-> 1, search_query |-> "q", filters |-> << >>] }

NextSearch == Serve(SearchRequests, Marks, Businesses) \/ Tick

SpecSearch == Init /\ [][NextSearch]_vars

\* one business whose calls are recorded: its completed calls are kept in
\* hist for comparison
ObservedRequests ==
    { [business_id |-> 1, search_query |-> "", filters |-> << >>] }

InitObserved ==
    InitState /\ ops = ObservedOps /\ observed = TRUE /\ hyd = NoHydration

NextObserved ==
    \/ \E p \in Procs, rq \in ObservedRequests, pg \in Pages : GetFromCache(p, rq, pg)
    \/ \E p \in Procs : Generate(p)
    \/ \E p \in Procs, pg \in Pages : CacheRecommendations(p, pg)
    \/ \E p \in Procs : MarkCheck(p, 1, 2)
    \/ \E p \in Procs : MarkInsert(p)
    \/ Tick

SpecObserved == InitObserved /\ [][NextObserved]_vars

\* one business sending distinct filter sets one call after another, a new
\* filter set only after the ones before it
PruneRequests ==
    { [business_id |-> 1, search_query |-> "",
       filters |-> << << "min_followers", << k >> >> >>] : k \in 1..NumPruneKeys }

InitPrune ==
    InitState /\ ops = NumPruneKeys /\ observed = FALSE /\ hyd = NoHydration

NextPrune ==
    \/ \E rq \in PruneRequests, pg \in Pages :
          /\ \A q \in Procs : req[q].pc = "idle"
          /\ rq.filters[1][2][1] = nextId
          /\ GetFromCache(1, rq, pg)
    \/ Generate(1)
    \/ \E pg \in Pages : CacheRecommendations(1, pg)

SpecPrune == InitPrune /\ [][NextPrune]_vars

(***************************************************************************)
(* The service called directly, with any business id, and a database that  *)
(* may fail.                                                               *)
(***************************************************************************)
\* a business id with no row in users_businesses
NoSuchBusiness == 9

\* a call whose exception left get_recommendations: the handlers answer 500
Raised(r, path) ==
    [ business_id |-> r.business_id, status |-> 500, path |-> path,
      read |-> r.cached, wrote |-> 0, offset |-> 0, limit |-> 0, ret |-> << >> ]

\* recommendation_cache.business_id REFERENCES users_businesses.id: the
\* commit of _cache_recommendations raises IntegrityError for an id without
\* a row.  Nothing catches it in get_recommendations.
CacheWriteRejected(p) ==
    /\ req[p].pc = "write"
    /\ req[p].business_id \notin Businesses
    /\ req' = Completed(p)
    /\ last' = Raised(req[p], "integrity")
    /\ UNCHANGED << now, stamp, industries, interactions, cache, nextId, ops,
                    marked, observed, hist, pruned, hyd >>

\* the database fails while _cache_recommendations runs (connection lost,
\* statement timeout): the await raises, nothing is committed
CacheWriteFails(p) ==
    /\ req[p].pc = "write"
    /\ req' = Completed(p)
    /\ last' = Raised(req[p], "fault")
    /\ UNCHANGED << now, stamp, industries, interactions, cache, nextId, ops,
                    marked, observed, hist, pruned, hyd >>

\* the calls made on the service: a business without industries, an id of
\* no business, and a business with an industry
ServiceRequests ==
    { [business_id |-> b, search_query |-> q, filters |-> f] :
        b \in {2, NoSuchBusiness}, q \in {"", "q"},
        f \in { << >>, << << "min_followers", << 100 >> >> >> } }
    \cup { [business_id |-> 1, search_query |-> "", filters |-> << >>] }

NextService ==
    \/ \E p \in Procs, rq \in ServiceRequests, pg \in Pages : GetFromCache(p, rq, pg)
    \/ \E p \in Procs : Generate(p)
    \/ \E p \in Procs, pg \in Pages :
          req[p].business_id \in Businesses /\ CacheRecommendations(p, pg)
    \/ \E p \in Procs : CacheWriteRejected(p)
    \/ \E p \in Procs : CacheWriteFails(p)
    \/ Tick

SpecService == Init /\ [][NextService]_vars

(***************************************************************************)
(* One business sending the same two filters in either order.              *)
(***************************************************************************)
KeyRequests ==
    { [business_id |-> 1, search_query |-> "", filters |-> f] :
        f \in { << << "min_followers", << 100 >> >>, << "engagement_rate", << 2 >> >> >>,
                << << "engagement_rate", << 2 >> >>, << "min_followers", << 100 >> >> >> } }

NextKey ==
    \/ \E p \in Procs, rq \in KeyRequests, pg \in Pages : GetFromCache(p, rq, pg)
    \/ \E p \in Procs : Generate(p)
    \/ \E p \in Procs, pg \in Pages : CacheRecommendations(p, pg)
    \/ Tick

InitKey == InitState /\ ops = MaxOps /\ observed = TRUE /\ hyd = NoHydration

SpecKey == InitKey /\ [][NextKey]_vars

(***************************************************************************)
(* POST /profile/business/setup -> setup_business_profile                  *)
(***************************************************************************)
\* the handler loads the business, replaces its industries by the ones
\* asked for (all of them exist) and commits
SetupCommit(p, b, industry_ids) ==
    /\ Free(p)
    /\ ops' = ops - 1
    /\ industries' = [industries EXCEPT ![b] = industry_ids]
    /\ req' = [req EXCEPT ![p] =
                 [Idle EXCEPT !.pc = "setup_inv", !.business_id = b]]
    /\ hist' = << >>
    /\ UNCHANGED << now, stamp, interactions, cache, nextId, last, marked,
                    observed, pruned, hyd >>

\* then it calls invalidate_cache: the SELECT of the business's rows
SetupInvalidate(p) ==
    /\ req[p].pc = "setup_inv"
    /\ req' = [req EXCEPT ![p] =
                 [@ EXCEPT !.pc = "inv_delete",
                           !.entries = { r.id : r \in
                               { x \in cache : x.business_id = req[p].business_id } }]]
    /\ UNCHANGED << now, stamp, industries, interactions, cache, nextId, ops,
                    last, marked, observed, hist, pruned, hyd >>

\* the industry sets business 1 is given
SetupIndustries == { {2}, {1, 2} }

NextSetup ==
    \/ \E p \in Procs, rq \in ObservedRequests, pg \in Pages : GetFromCache(p, rq, pg)
    \/ \E p \in Procs : Generate(p)
    \/ \E p \in Procs, pg \in Pages : CacheRecommendations(p, pg)
    \/ \E p \in Procs, inds \in SetupIndustries : SetupCommit(p, 1, inds)
    \/ \E p \in Procs : SetupInvalidate(p)
    \/ \E p \in Procs : InvalidateDelete(p)
    \/ Tick

SpecSetup == Init /\ [][NextSetup]_vars

(***************************************************************************)
(* GET /recommendations: the query parameters of the handler.              *)
(***************************************************************************)
\* text.split(','): the pieces between the commas
RECURSIVE SplitComma(_)
SplitComma(text) ==
    IF text = << >> THEN << << >> >>
    ELSE LET rest == SplitComma(Tail(text))
         IN  IF Head(text) = "," THEN << << >> >> \o rest
             ELSE << << Head(text) >> \o rest[1] >> \o Tail(rest)

\* int(piece) raises ValueError unless the piece is a decimal numeral
IsNumeral(piece) == piece # << >> /\ \A i \in DOMAIN piece : piece[i] \in Range(Digits)

RECURSIVE IntOf(_)
IntOf(piece) ==
    IF piece = << >> THEN 0
    ELSE 10 * IntOf(SubSeq(piece, 1, Len(piece) - 1)) + DigitValue(piece[Len(piece)])

\* [int(niche_id.strip()) for niche_id in niches.split(',')]
ParseNiches(text) ==
    LET pieces == SplitComma(text)
    IN  [ ok |-> \A i \in DOMAIN pieces : IsNumeral(pieces[i]),
          ids |-> [i \in DOMAIN pieces |->
                     IF IsNumeral(pieces[i]) THEN IntOf(pieces[i]) ELSE NULL] ]

\* the filters dict the handler builds: a number is taken when it is not
\* None, the niches text when it is not empty
BuildFilters(params) ==
    (IF params.min_followers # NULL
     THEN << << "min_followers", << params.min_followers >> >> >> ELSE << >>)
    \o (IF params.max_followers # NULL
        THEN << << "max_followers", << params.max_followers >> >> >> ELSE << >>)
    \o (IF params.engagement_rate # NULL
        THEN << << "engagement_rate", << params.engagement_rate >> >> >> ELSE << >>)
    \o (IF params.niches # << >>
        THEN << << "niches", ParseNiches(params.niches).ids >> >> ELSE << >>)

\* the status of the response when the body of the handler raises: the
\* handler catches JWTError (401) and then every Exception (500), and
\* HTTPException is an Exception
ExceptStatus(kind, status_code) == IF kind = "JWTError" THEN 401 ELSE 500

NoParams ==
    [ min_followers |-> NULL, max_followers |-> NULL, engagement_rate |-> NULL,
      niches |-> << >> ]

\* the query strings sent
HandlerParams ==
    { NoParams,
      [NoParams EXCEPT !.min_followers = 0],
      [NoParams EXCEPT !.max_followers = 0],
      [NoParams EXCEPT !.max_followers = 500],
      [NoParams EXCEPT !.min_followers = 100, !.engagement_rate = 2],
      [NoParams EXCEPT !.niches = << "4", ",", "1" >>],
      [NoParams EXCEPT !.niches = << "x" >>],
      [NoParams EXCEPT !.niches = << "1", "," >>] }

\* the parameters are well formed: the service is called
HandleRecommendations(p, b, params, pg) ==
    /\ params.niches # << >> => ParseNiches(params.niches).ok
    /\ GetFromCache(p, [business_id |-> b, search_query |-> "",
                        filters |-> BuildFilters(params)], pg)

\* int() raises ValueError: the handler raises HTTPException(400) inside its
\* try block
RejectRequest(p, b, params) ==
    /\ Free(p)
    /\ params.niches # << >>
    /\ ~ ParseNiches(params.niches).ok
    /\ ops' = ops - 1
    /\ last' = [ business_id |-> b,
                 status |-> ExceptStatus("HTTPException", 400),
                 path |-> "rejected", read |-> 0, wrote |-> 0,
                 offset |-> 0, limit |-> 0, ret |-> << >> ]
    /\ UNCHANGED << now, stamp, industries, interactions, cache, nextId, req,
                    marked, observed, hist, pruned, hyd >>

NextHandler ==
    \/ \E p \in Procs, params \in HandlerParams, pg \in Pages :
          HandleRecommendations(p, 1, params, pg)
    \/ \E p \in Procs, params \in HandlerParams : RejectRequest(p, 1, params)
    \/ \E p \in Procs : Generate(p)
    \/ \E p \in Procs, pg \in Pages : CacheRecommendations(p, pg)
    \/ \E p \in Procs, inds \in SetupIndustries : SetupCommit(p, 1, inds)
    \/ \E p \in Procs : SetupInvalidate(p)
    \/ \E p \in Procs : InvalidateDelete(p)

SpecHandler == Init /\ [][NextHandler]_vars

(***************************************************************************)
(* Helpers of the properties.                                              *)
(***************************************************************************)
\* the position of x in the sequence s
Pos(s, x) == CHOOSE i \in DOMAIN s : s[i] = x

\* the rows of a business
RowsOf(b) == { r \in cache : r.business_id = b }

\* the rows of a (business, cache key) whose expires_at has not passed
Unexpired(b, key) ==
    { r \in cache : r.business_id = b /\ r.cache_key = key /\ r.expires_at > now }

KeyOf(rq) == _create_cache_key(rq.business_id, rq.search_query, rq.filters)

\* the creators with a niche of one of the industries
Candidates(industry_ids) ==
    { c \in Creators :
        CreatorNiches[c] \cap UNION { IndustryNiches[i] : i \in industry_ids } # {} }

\* the niche pool of a business: the niches of its industries
Pool(b) == UNION { IndustryNiches[i] : i \in industries[b] }

\* the candidate niches of a generation: the pool, narrowed by a niches filter
CandidateNiches(b, filters) ==
    IF HasKey(filters, "niches") THEN Pool(b) \cap Range(ValueOf(filters, "niches"))
    ELSE Pool(b)

\* the number of distinct candidate niches creator c belongs to
DistinctMatches(c, niche_ids) == Cardinality(CreatorNiches[c] \cap niche_ids)

\* the social-account rows of creator c
SocialsOf(c) == { x \in SocialRows : x.user_id = c }

\* the largest value of a set of integers, NULL when there is none
MaxOrNull(S) == IF S = {} THEN NULL ELSE CHOOSE x \in S : \A y \in S : y <= x

\* the aggregate figures of creator c: the maximum across its social rows
AggFollowers(c) == MaxOrNull({ x.followers_count : x \in SocialsOf(c) } \ { NULL })

AggEngagement(c) == MaxOrNull({ x.engagement_rate : x \in SocialsOf(c) } \ { NULL })

\* the value v (NULL included) meets the bound the filters give under key k
MeetsBounds(followers, engagement, filters) ==
    /\ HasKey(filters, "min_followers") =>
          (followers # NULL /\ followers >= ValueOf(filters, "min_followers")[1])
    /\ HasKey(filters, "max_followers") =>
          (followers # NULL /\ followers <= ValueOf(filters, "max_followers")[1])
    /\ HasKey(filters, "engagement_rate") =>
          (engagement # NULL /\ engagement >= ValueOf(filters, "engagement_rate")[1])

\* a setup_business_profile call of business b has not returned yet
SettingUp(b) ==
    \E p \in Procs : /\ req[p].pc \in { "setup_inv", "inv_delete" }
                     /\ req[p].business_id = b

(***************************************************************************)
(* C3: a fresh generation lists every creator the business has not viewed  *)
(* before every creator it has viewed, each group in the order the scoring *)
(* query returned, with and without a search text; so a viewed creator     *)
(* comes after an unviewed one that has fewer niche matches.               *)
(***************************************************************************)
C3_ViewedLast ==
    [][ \A p \in Procs :
          (req[p].pc = "generate" /\ req'[p].pc = "write") =>
            LET ids == req'[p].creator_ids
                scored == req'[p].scored
                viewed == { c \in Creators :
                              interactions[req[p].business_id][c] > 0 }
            IN  /\ Len(ids) = Len(scored)
                /\ Range(ids) = Range(scored)
                /\ \A i, j \in DOMAIN ids :
                      (i < j /\ ids[i] \in viewed) => ids[j] \in viewed
                /\ \A i, j \in DOMAIN ids :
                      (i < j /\ (ids[i] \in viewed <=> ids[j] \in viewed)) =>
                          Pos(scored, ids[i]) < Pos(scored, ids[j]) ]_vars

\* a generation with a search text has put a viewed creator behind an
\* unviewed one that the scoring query ranked lower
C3_Witness ==
    \E p \in Procs :
        /\ req[p].pc = "write"
        /\ req[p].search_query # ""
        /\ \E i, j \in DOMAIN req[p].creator_ids :
              /\ i < j
              /\ req[p].creator_ids[j] \in req[p].viewed
              /\ req[p].creator_ids[i] \notin req[p].viewed
              /\ Pos(req[p].scored, req[p].creator_ids[j]) <
                    Pos(req[p].scored, req[p].creator_ids[i])

(***************************************************************************)
(* C6: whenever an unexpired row exists for the (business, cache key) of a *)
(* call, the call is served from a stored list: it returns the page of the *)
(* row's list, runs no fresh generation and writes no row.  This is said   *)
(* of every stored list, the empty one included.                           *)
(***************************************************************************)
C6_HitServesStored ==
    [][ \A p \in Procs, rq \in Requests, pg \in Pages :
          (GetFromCache(p, rq, pg) /\ Unexpired(rq.business_id, KeyOf(rq)) # {}) =>
            /\ req'[p].pc = "idle"
            /\ nextId' = nextId
            /\ last'.path = "hit"
            /\ \E row \in Unexpired(rq.business_id, KeyOf(rq)) :
                  /\ last'.read = row.id
                  /\ last'.ret = Slice(json_loads(row.creator_ids),
                                       last'.offset, last'.limit) ]_vars

(***************************************************************************)
(* C7: mark_creator_viewed adds, deletes and changes no cache row, and a   *)
(* call that hits a row returns the page of the list stored in the row,    *)
(* whatever the business has viewed since the row was written.             *)
(***************************************************************************)
C7_MarkLeavesCache ==
    [][ /\ \A p \in Procs :
              (\/ (req[p].pc = "idle" /\ req'[p].pc = "mv_insert")
               \/ (req[p].pc = "mv_insert" /\ req'[p].pc = "idle")
               \/ marked' # marked) => cache' = cache
        /\ \A row \in cache :
              (/\ ops' # ops /\ stamp' # stamp
               /\ \A p \in Procs : req[p].pc = "idle" => req'[p].pc = "idle"
               /\ last'.read = row.id) =>
                  /\ last'.path = "hit"
                  /\ last'.ret = Slice(json_loads(row.creator_ids),
                                       last'.offset, last'.limit) ]_vars

\* a hit has returned, first on its page, a creator the business has by now
\* viewed, from a row that lists an unviewed creator behind it
C7_Witness ==
    /\ last.path = "hit"
    /\ last.ret # << >>
    /\ \E row \in cache :
          /\ row.id = last.read
          /\ interactions[row.business_id][last.ret[1]] > 0
          /\ \E c \in Range(json_loads(row.creator_ids)) :
                /\ interactions[row.business_id][c] = 0
                /\ Pos(json_loads(row.creator_ids), last.ret[1]) <
                      Pos(json_loads(row.creator_ids), c)

(***************************************************************************)
(* C8: when the mark_creator_viewed calls for a (business, creator) pair   *)
(* come one after another, the pair has exactly one interaction row once a *)
(* call has completed, however many calls follow.                          *)
(***************************************************************************)
C8_OneInteraction ==
    \A m \in Businesses \X Creators :
        (marked[m].done >= 1 /\ ~ marked[m].raced) =>
            interactions[m[1]][m[2]] = 1

\* two calls for a pair have completed one after the other
C8_Witness ==
    \E m \in Businesses \X Creators :
        /\ marked[m].done >= 2
        /\ ~ marked[m].raced
        /\ interactions[m[1]][m[2]] = 1

(***************************************************************************)
(* C9: a cache read takes a row only while the row's expires_at is later   *)
(* than now; a call that finds no such row for its (business, cache key)   *)
(* goes on to a fresh generation, the expired rows staying where they are; *)
(* a fresh generation is followed by a cache write, and the row written    *)
(* expires cache_duration_minutes after it is written.                     *)
(***************************************************************************)
C9_ExpiryAtRead ==
    [][ /\ \A row \in cache :
              (\/ \E p \in Procs : req[p].pc = "idle" /\ req'[p].cached = row.id
               \/ (/\ ops' # ops /\ stamp' # stamp
                   /\ \A p \in Procs : req[p].pc = "idle" => req'[p].pc = "idle"
                   /\ last'.read = row.id)
               \/ \E x \in cache' : x.id = row.id /\ x # row) =>
                  row.expires_at > now
        /\ \A p \in Procs :
              (req[p].pc = "idle" /\ req'[p].pc = "generate" /\ req'[p].cached = 0) =>
                  /\ Unexpired(req'[p].business_id, KeyOf(req'[p])) = {}
                  /\ cache' = cache
        /\ \A p \in Procs :
              (req[p].pc = "generate" /\ req'[p] # req[p]) => req'[p].pc = "write"
        /\ \A p \in Procs :
              (req[p].pc = "write" /\ req'[p].pc = "idle") =>
                \E row \in cache' :
                    /\ row.id = nextId
                    /\ row.business_id = req[p].business_id
                    /\ row.cache_key = KeyOf(req[p])
                    /\ row.expires_at = now + cache_duration_minutes ]_vars

\* a row written after a row of the same business and cache key expired,
\* the expired row still in the table
C9_Witness ==
    \E old \in cache, new \in cache :
        /\ old.business_id = new.business_id
        /\ old.cache_key = new.cache_key
        /\ old.expires_at <= now
        /\ new.expires_at > now
        /\ new.expires_at - cache_duration_minutes >= old.expires_at

(***************************************************************************)
(* C10: with several unexpired rows for one (business, cache key), every   *)
(* cache read takes the ordering of the row created last.                  *)
(***************************************************************************)
C10_NewestWins ==
    [][ \A p \in Procs, rq \in Requests, pg \in Pages, row \in cache :
          (/\ GetFromCache(p, rq, pg)
           /\ \/ req'[p].cached = row.id
              \/ (last' # last /\ last'.read = row.id)) =>
            \A newest \in Unexpired(rq.business_id, KeyOf(rq)) :
                (\A x \in Unexpired(rq.business_id, KeyOf(rq)) :
                    x.created_at <= newest.created_at) =>
                        row.creator_ids = newest.creator_ids ]_vars

(***************************************************************************)
(* C4: when invalidate_cache(business) completes, recommendation_cache     *)
(* holds no row of that business, and the rows of the other businesses are *)
(* the ones it held before.                                                *)
(***************************************************************************)
C4_InvalidateClears ==
    [][ \A p \in Procs :
          (req[p].pc = "inv_delete" /\ req'[p].pc = "idle") =>
            /\ { r \in cache' : r.business_id = req[p].business_id } = {}
            /\ { r \in cache' : r.business_id # req[p].business_id } =
                  { r \in cache : r.business_id # req[p].business_id } ]_vars

(***************************************************************************)
(* C1: two get_recommendations calls of one business with the same search  *)
(* query, filters, offset and limit, the second begun after the first      *)
(* ended, with no mark_creator_viewed or invalidate_cache call between     *)
(* them and the second made before the entry of the first expires, return  *)
(* the same sequence of ids.                                               *)
(***************************************************************************)
C1_RepeatedCallsAgree ==
    \A i \in DOMAIN hist : \A j \in DOMAIN hist :
        (/\ j = i + 1
         /\ hist[i].business_id = hist[j].business_id
         /\ hist[i].cache_key = hist[j].cache_key
         /\ hist[i].offset = hist[j].offset
         /\ hist[i].limit = hist[j].limit
         /\ hist[j].at < hist[i].exp) =>
            hist[i].ret = hist[j].ret

(***************************************************************************)
(* C2: three calls of one business with one fingerprint, one after         *)
(* another within the TTL of the first, asking for (offset 0, limit n),    *)
(* (offset n, limit n) and (offset 0, limit 2n): the first two pages put   *)
(* together are the third.                                                 *)
(***************************************************************************)
C2_PagesConcatenate ==
    (Len(hist) = 3) =>
        \A n \in 1..2 :
            (/\ \A i \in 1..3 : /\ hist[i].business_id = hist[1].business_id
                                /\ hist[i].cache_key = hist[1].cache_key
                                /\ hist[i].at < hist[1].exp
             /\ hist[1].offset = 0 /\ hist[1].limit = n
             /\ hist[2].offset = n /\ hist[2].limit = n
             /\ hist[3].offset = 0 /\ hist[3].limit = 2 * n) =>
                hist[1].ret \o hist[2].ret = hist[3].ret

(***************************************************************************)
(* C5: once one business has had NumPruneKeys cache rows written for       *)
(* distinct fingerprints, at most KeepRecent of its rows are unexpired in  *)
(* the table.                                                              *)
(***************************************************************************)
C5_PruneBound ==
    (nextId > NumPruneKeys) =>
        Cardinality({ r \in RowsOf(1) : r.expires_at > now }) <= KeepRecent

(***************************************************************************)
(* C11: a get_recommendations call for a business without industries, or   *)
(* for an id of no business, returns the empty list and raises nothing,    *)
(* whatever the search query, filters, offset and limit (the database      *)
(* itself not failing).                                                    *)
(***************************************************************************)
C11_NoIndustriesEmpty ==
    (/\ last.path \notin { "none", "fault" }
     /\ \/ last.business_id \notin Businesses
        \/ industries[last.business_id] = {}) =>
        (last.status = 200 /\ last.ret = << >>)

(***************************************************************************)
(* C15: a get_recommendations call that has generated its list always      *)
(* returns the page of that list, also when the cache write fails.         *)
(***************************************************************************)
C15_WriteFailureServes ==
    [][ \A p \in Procs :
          (req[p].pc = "write" /\ req'[p].pc = "idle") =>
            /\ last'.status = 200
            /\ last'.ret = Slice(req[p].creator_ids, last'.offset, last'.limit) ]_vars

(***************************************************************************)
(* C12: two filter dicts holding the same pairs in a different order give  *)
(* the same cache key, and a call does not miss the cache while the table  *)
(* holds an unexpired row of its business written for its search query and *)
(* the same pairs in any order.                                            *)
(***************************************************************************)
C12_KeyOrderFree ==
    [][ /\ \A a \in KeyRequests, b \in KeyRequests :
              (/\ a.business_id = b.business_id
               /\ a.search_query = b.search_query
               /\ Range(a.filters) = Range(b.filters)) => KeyOf(a) = KeyOf(b)
        /\ \A p \in Procs :
              (req[p].pc = "idle" /\ req'[p].pc = "generate" /\ req'[p].cached = 0) =>
                  \A g \in Orders(Range(req'[p].filters)) :
                      Unexpired(req'[p].business_id,
                                _create_cache_key(req'[p].business_id,
                                                  req'[p].search_query, g)) = {} ]_vars

\* two calls, one after the other, sent the filters in different orders and
\* the second one was served from the only row ever written
C12_Witness ==
    /\ Len(hist) >= 2
    /\ hist[Len(hist) - 1].filters # hist[Len(hist)].filters
    /\ Range(hist[Len(hist) - 1].filters) = Range(hist[Len(hist)].filters)
    /\ last.path = "hit"
    /\ last.read = 1
    /\ nextId = 2

(***************************************************************************)
(* C13: the row a get_recommendations call reads from the cache is a row   *)
(* of the calling business, also while another business has an unexpired   *)
(* row under the same cache key; the cache key does not hold the business. *)
(***************************************************************************)
C13_BusinessScoped ==
    [][ /\ \A rq \in Requests :
              \A b \in Businesses : KeyOf(rq) = KeyOf([rq EXCEPT !.business_id = b])
        /\ \A row \in cache, p \in Procs :
              (req[p].pc = "idle" /\ req'[p].cached = row.id) =>
                  req'[p].business_id = row.business_id
        /\ \A row \in cache :
              (/\ ops' # ops /\ stamp' # stamp
               /\ \A p \in Procs : req[p].pc = "idle" => req'[p].pc = "idle"
               /\ last'.read = row.id) =>
                  /\ last'.business_id = row.business_id
                  /\ last'.ret = Slice(json_loads(row.creator_ids),
                                       last'.offset, last'.limit) ]_vars

\* a call of one business was served from its row while another business
\* had an unexpired row under the same cache key
C13_Witness ==
    /\ last.path = "hit"
    /\ \E mine \in cache, other \in cache :
          /\ mine.id = last.read
          /\ mine.business_id = last.business_id
          /\ other.business_id # mine.business_id
          /\ other.cache_key = mine.cache_key
          /\ other.expires_at > now
          /\ other.id < mine.id

(***************************************************************************)
(* C14: when setup_business_profile returns, the cache rows its            *)
(* invalidate_cache found for the business are gone, and once it has       *)
(* returned a get_recommendations call of the business is not served a     *)
(* list generated from the industries the business had before: every       *)
(* creator served has a niche of the industries the business has now.      *)
(***************************************************************************)
C14_SetupInvalidates ==
    [][ /\ \A p \in Procs :
              (req[p].pc = "inv_delete" /\ req'[p].pc = "idle") =>
                  \A r \in cache' : r.id \notin req[p].entries
        /\ \A row \in cache :
              (/\ ops' # ops /\ stamp' # stamp
               /\ \A p \in Procs : req[p].pc = "idle" => req'[p].pc = "idle"
               /\ last'.read = row.id
               /\ industries[row.business_id] # InitialIndustries[row.business_id]
               /\ ~ SettingUp(row.business_id)) =>
                  Range(json_loads(row.creator_ids)) \subseteq
                      Candidates(industries[row.business_id]) ]_vars

(***************************************************************************)
(* C16: a /recommendations request whose niches text is not a list of      *)
(* integers is answered with a client error (4xx); no scoring query runs   *)
(* and no cache row is written for it.                                     *)
(***************************************************************************)
C16_MalformedIsClientError ==
    /\ last.path = "rejected" => (last.status >= 400 /\ last.status <= 499)
    /\ \A p \in Procs :
          req[p].pc \in { "generate", "write" } =>
              \A i \in DOMAIN req[p].filters :
                  \A j \in DOMAIN req[p].filters[i][2] : req[p].filters[i][2][j] # NULL

C19_ZeroBoundApplies ==
    [][ \A p \in Procs :
          (req[p].pc = "generate" /\ req'[p].pc = "write") =>
            \A c \in Range(req'[p].scored) :
                \/ MeetsBounds(NULL, NULL, req[p].filters)
                \/ \E x \in SocialsOf(c) :
                      MeetsBounds(x.followers_count, x.engagement_rate,
                                  req[p].filters) ]_vars

(***************************************************************************)
(* C20: with a niches filter, every creator of a fresh generation belongs  *)
(* to a niche that is both in the filter and in the pool of the business,  *)
(* and with no other filter every such creator is in the generation.       *)
(***************************************************************************)
C20_NichesIntersectPool ==
    [][ \A p \in Procs :
          (/\ req[p].pc = "generate" /\ req'[p].pc = "write"
           /\ HasKey(req[p].filters, "niches")) =>
            LET nich == Pool(req[p].business_id)
                          \cap Range(ValueOf(req[p].filters, "niches"))
            IN  /\ \A c \in Range(req'[p].scored) : CreatorNiches[c] \cap nich # {}
                /\ Len(req[p].filters) = 1 =>
                      \A c \in Creators :
                          CreatorNiches[c] \cap nich # {} => c \in Range(req'[p].scored) ]_vars

\* a generation under a niches filter naming a niche outside the pool has
\* left out a creator of that niche and listed others
C20_Witness ==
    \E p \in Procs :
        /\ req[p].pc = "write"
        /\ HasKey(req[p].filters, "niches")
        /\ req[p].creator_ids # << >>
        /\ \E n \in Range(ValueOf(req[p].filters, "niches")) \ Pool(req[p].business_id) :
              \E c \in Creators : /\ n \in CreatorNiches[c]
                                  /\ c \notin Range(req[p].creator_ids)

(***************************************************************************)
(* C21: two fresh generations for the same business, search query and      *)
(* filters, made over the same reference data and the same viewed set,     *)
(* give the same list of ids, also when candidates have the same number of *)
(* niche matches and the same creation time.                               *)
(***************************************************************************)
C21_GenerationDeterministic ==
    \A p \in Procs, q \in Procs :
        (/\ req[p].pc = "write" /\ req[q].pc = "write"
         /\ req[p].business_id = req[q].business_id
         /\ req[p].search_query = req[q].search_query
         /\ req[p].filters = req[q].filters
         /\ req[p].viewed = req[q].viewed) =>
            req[p].creator_ids = req[q].creator_ids

(***************************************************************************)
(* _get_creators_by_ids on its own: any id list, any set of creators that  *)
(* still exist, the rows in any order the database returns them.           *)
(***************************************************************************)
MaxIds == 3          \* longest id list given to _get_creators_by_ids

\* the id lists of at most MaxIds ids
IdLists == UNION { [1..n -> Creators] : n \in 0..MaxIds }

\* the summary built from a users_creators row: its id and its niches
Summary(row) == [ id |-> row.id, niches |-> CreatorNiches[row.id] ]

\* the summaries in the order of the rows
_get_creators_by_idsAlt(creator_ids, result) ==
    [i \in DOMAIN result |-> Summary(result[i])]

\* creators_dict keyed by id, then one summary for each id of creator_ids
\* that is a key, in the order of creator_ids
_get_creators_by_ids(creator_ids, result) ==
    IF creator_ids = << >> THEN << >>
    ELSE LET keys == { result[i].id : i \in DOMAIN result }
             creators_dict == [k \in keys |->
                                 result[CHOOSE i \in DOMAIN result : result[i].id = k]]
             found == FilterIn(creator_ids, keys)
         IN  [i \in DOMAIN found |-> Summary(creators_dict[found[i]])]

\* SELECT ... WHERE id IN (creator_ids): the rows that exist, in any order
HydrateSelect ==
    /\ hyd.pc = "select"
    /\ \E result \in Orders(hyd.existing \cap Range(hyd.creator_ids)) :
          hyd' = [hyd EXCEPT !.pc = "project",
                             !.result = [i \in DOMAIN result |-> [id |-> result[i]]]]
    /\ UNCHANGED << now, stamp, industries, interactions, cache, nextId, req, ops,
                    last, marked, observed, hist, pruned >>

\* the loop over creator_ids
HydrateProject ==
    /\ hyd.pc = "project"
    /\ hyd' = [hyd EXCEPT !.pc = "done",
                          !.out = _get_creators_by_ids(hyd.creator_ids, hyd.result)]
    /\ UNCHANGED << now, stamp, industries, interactions, cache, nextId, req, ops,
                    last, marked, observed, hist, pruned >>

InitHydrate ==
    /\ InitState /\ ops = 0 /\ observed = FALSE
    /\ \E ids \in IdLists, existing \in SUBSET Creators :
          hyd = [NoHydration EXCEPT !.pc = "select", !.creator_ids = ids,
                                    !.existing = existing]

NextHydrate == HydrateSelect \/ HydrateProject

SpecHydrate == InitHydrate /\ [][NextHydrate]_vars

(***************************************************************************)
(* C22: the ids of the summaries _get_creators_by_ids returns are the ids  *)
(* it was given without those of creators that no longer exist, in the     *)
(* order given, in whatever order the database returned the rows.          *)
(***************************************************************************)
C22_HydrationKeepsOrder ==
    hyd.pc = "done" =>
        [i \in DOMAIN hyd.out |-> hyd.out[i].id] =
            FilterIn(hyd.creator_ids, hyd.existing)

\* a list of three ids, one of a creator that no longer exists, hydrated
\* from rows that came back in another order
C22_Witness ==
    /\ hyd.pc = "done"
    /\ Len(hyd.creator_ids) = 3
    /\ Len(hyd.out) = 2
    /\ Len(hyd.result) = 2
    /\ hyd.result[1].id = hyd.out[2].id
    /\ hyd.result[2].id = hyd.out[1].id

(***************************************************************************)
(* Two businesses, one of them sending a new filter set call after call    *)
(* and reading its first fingerprint again in between.                     *)
(***************************************************************************)
PruneMixOps == 14    \* handler invocations in one behaviour of SpecPruneMix

\* the number of the filter set business 1 sends next
NextPruneKey ==
    LET sent == { r.cache_key[2][1][2][1] : r \in RowsOf(1) }
    IN  IF sent = {} THEN 1 ELSE 1 + CHOOSE k \in sent : \A x \in sent : x <= k

InitPruneMix ==
    InitState /\ ops = PruneMixOps /\ observed = FALSE /\ hyd = NoHydration

\* business 2 calls first or not at all; business 1 sends a new filter set
\* with every call, and may read its first one again once KeepRecent + 1 of
\* its rows are in the table
NextPruneMix ==
    \/ \E rq \in PruneRequests :
          /\ \A q \in Procs : req[q].pc = "idle"
          /\ \/ rq.filters[1][2][1] = NextPruneKey
             \/ /\ rq.filters[1][2][1] = 1
                /\ Live(1, KeyOf(rq)) # {}
                /\ Cardinality(RowsOf(1)) = KeepRecent + 1
          /\ GetFromCache(1, rq, << 0, 1 >>)
    \/ /\ cache = {}
       /\ \A q \in Procs : req[q].pc = "idle"
       /\ GetFromCache(1, [business_id |-> 2, search_query |-> "",
                           filters |-> << >>], << 0, 1 >>)
    \/ Generate(1)
    \/ CacheRecommendations(1, << 0, 1 >>)
    \/ Tick

SpecPruneMix == InitPruneMix /\ [][NextPruneMix]_vars

(***************************************************************************)
(* C23: a cache write of business X deletes the rows of X that have        *)
(* KeepRecent or more rows of X created after them, whenever they were     *)
(* last read, and no other row: no row of another business and none of the *)
(* KeepRecent rows of X created last.                                      *)
(***************************************************************************)
C23_PruneByCreation ==
    [][ \A p \in Procs :
          (req[p].pc = "write" /\ req'[p].pc = "idle") =>
            \A row \in cache :
                (\A x \in cache' : x.id # row.id) <=>
                    /\ row.business_id = req[p].business_id
                    /\ Cardinality({ x \in cache :
                                       /\ x.business_id = row.business_id
                                       /\ x.created_at > row.created_at })
                          >= KeepRecent ]_vars

\* the latest write deleted a row that had been read after every row kept,
\* and left an older row of another business in the table
C23_Witness ==
    \E row \in pruned :
        /\ \A x \in cache :
              x.business_id = row.business_id => x.last_accessed <= row.last_accessed
        /\ \E x \in cache :
              x.business_id = row.business_id /\ x.last_accessed < row.last_accessed
        /\ \E other \in cache :
              /\ other.business_id # row.business_id
              /\ other.created_at < row.created_at

(***************************************************************************)
(* C24: when two get_recommendations calls of one business and fingerprint *)
(* both miss the cache and interleave, the row each of them writes holds   *)
(* the whole list that call generated and no stored list changes later;    *)
(* a later call for the fingerprint that finds the two rows is answered    *)
(* with status 200 and the page of the list of one of them.                *)
(***************************************************************************)
C24_RacingWritesKeepLists ==
    [][ /\ \A p \in Procs :
              (req[p].pc = "write" /\ req'[p].pc = "idle") =>
                  \E row \in cache' :
                      /\ row.id = nextId
                      /\ json_loads(row.creator_ids) = req[p].creator_ids
        /\ \A row \in cache, x \in cache' :
              x.id = row.id => x.creator_ids = row.creator_ids
        /\ \A p \in Procs :
              (/\ req[p].pc = "idle" /\ req'[p].pc = "generate"
               /\ Cardinality(Unexpired(req'[p].business_id, KeyOf(req'[p]))) >= 2) =>
                  \E row \in Unexpired(req'[p].business_id, KeyOf(req'[p])) :
                      /\ req'[p].cached = row.id
                      /\ json_loads(row.creator_ids) = << >>
        /\ \A row \in cache :
              (/\ ops' # ops /\ stamp' # stamp
               /\ \A p \in Procs : req[p].pc = "idle" => req'[p].pc = "idle"
               /\ last'.read = row.id
               /\ Cardinality(Unexpired(row.business_id, row.cache_key)) >= 2) =>
                  /\ row \in Unexpired(row.business_id, row.cache_key)
                  /\ last'.status = 200
                  /\ last'.business_id = row.business_id
                  /\ last'.ret = Slice(json_loads(row.creator_ids),
                                       last'.offset, last'.limit) ]_vars

\* two unexpired rows of one business and fingerprint hold different lists,
\* and the latest call was served from one of them
C24_Witness ==
    \E a \in cache, b \in cache :
        /\ a.id # b.id
        /\ a.business_id = b.business_id
        /\ a.cache_key = b.cache_key
        /\ a.expires_at > now /\ b.expires_at > now
        /\ json_loads(a.creator_ids) # json_loads(b.creator_ids)
        /\ json_loads(a.creator_ids) # << >>
        /\ json_loads(b.creator_ids) # << >>
        /\ last.path = "hit"
        /\ last.read = a.id

(***************************************************************************)
(* C25: a cache read that finds a row changes the last_accessed of that    *)
(* row and nothing else in the table: no row is added or deleted, the      *)
(* stored list, created_at and expires_at of the row stay as they were.    *)
(***************************************************************************)
C25_HitTouchesOnly ==
    [][ \A row \in cache :
          (/\ ops' # ops /\ stamp' # stamp
           /\ \/ \E p \in Procs : req[p].pc = "idle" /\ req'[p].cached = row.id
              \/ (/\ \A p \in Procs : req[p].pc = "idle" => req'[p].pc = "idle"
                  /\ last'.read = row.id)) =>
              /\ cache' = (cache \ { row }) \cup { [row EXCEPT !.last_accessed = now] }
              /\ nextId' = nextId
              /\ \A x \in cache' :
                    x.id = row.id => /\ x.creator_ids = row.creator_ids
                                     /\ x.created_at = row.created_at
                                     /\ x.expires_at = row.expires_at ]_vars

\* a row read later than it was written: its last_accessed has moved, its
\* expires_at is still cache_duration_minutes after the write
C25_Witness ==
    /\ last.path = "hit"
    /\ \E row \in cache :
          /\ row.id = last.read
          /\ row.last_accessed = now
          /\ row.expires_at < now + cache_duration_minutes

(***************************************************************************)
(* C26: a fresh generation made while a (business, creator) pair has       *)
(* several interaction rows is the one made with a single row for the      *)
(* pair: the query result with the creators that have at least one row     *)
(* moved behind the others, every creator listed once.                     *)
(***************************************************************************)
C26_DuplicateRowsHarmless ==
    [][ \A p \in Procs :
          (req[p].pc = "generate" /\ req'[p].pc = "write") =>
            LET b == req[p].business_id
                one == [c \in Creators |-> IF interactions[b][c] >= 1 THEN 1 ELSE 0]
                ids == req'[p].creator_ids
            IN  /\ ids = FilterOut(req'[p].scored, { c \in Creators : one[c] = 1 })
                           \o FilterIn(req'[p].scored, { c \in Creators : one[c] = 1 })
                /\ \A i, j \in DOMAIN ids : i # j => ids[i] # ids[j] ]_vars

\* a generation has listed, once and behind an unviewed creator, a creator
\* the business has two interaction rows for
C26_Witness ==
    \E p \in Procs :
        /\ req[p].pc = "write"
        /\ \E c \in Range(req[p].creator_ids) :
              /\ interactions[req[p].business_id][c] = 2
              /\ c \in req[p].viewed
              /\ \E d \in Range(req[p].creator_ids) :
                    /\ d \notin req[p].viewed
                    /\ Pos(req[p].creator_ids, d) < Pos(req[p].creator_ids, c)

(***************************************************************************)
(* The calls handled one at a time: a call begins when no other is in      *)
(* flight.                                                                 *)
(***************************************************************************)
NextSequential ==
    \/ \E rq \in Requests, pg \in Pages :
          /\ \A q \in Procs : req[q].pc = "idle"
          /\ GetFromCache(1, rq, pg)
    \/ Generate(1)
    \/ \E pg \in Pages : CacheRecommendations(1, pg)
    \/ Tick

SpecSequential == Init /\ [][NextSequential]_vars

(***************************************************************************)
(* C27: when no two get_recommendations calls overlap, the table never     *)
(* holds two unexpired rows of one business and cache key, whatever list   *)
(* the rows hold, the empty list included.                                 *)
(***************************************************************************)
C27_OneLiveEntry ==
    \A rq \in Requests : Cardinality(Unexpired(rq.business_id, KeyOf(rq))) <= 1

(***************************************************************************)
(* C28: business_creator_interactions never holds two rows for one         *)
(* (business, creator) pair, also when two mark_creator_viewed calls for   *)
(* the pair interleave.                                                    *)
(***************************************************************************)
C28_AtMostOneRow ==
    \A b \in Businesses, c \in Creators : interactions[b][c] <= 1

(***************************************************************************)
(* C29: once a setup_business_profile call of a business has returned, a   *)
(* get_recommendations call of the business that begins afterwards is      *)
(* answered with the page of a list the industries the business has now    *)
(* generate, not of a list generated from the industries it had before,    *)
(* also when a get_recommendations call was between its generation and its *)
(* cache write while the industries changed.                               *)
(***************************************************************************)
C29_NoStaleAfterSetup ==
    [][ (/\ ops' # ops /\ stamp' # stamp
         /\ \A p \in Procs : req[p].pc = "idle" => req'[p].pc = "idle"
         /\ last'.path = "hit"
         /\ industries[last'.business_id] # InitialIndustries[last'.business_id]
         /\ ~ SettingUp(last'.business_id)) =>
            \E scored \in QueryResults(Pool(last'.business_id), "", << >>) :
                last'.ret =
                    Slice(PartitionViewed(scored,
                                          viewed_creator_ids(last'.business_id)),
                          last'.offset, last'.limit) ]_vars

(***************************************************************************)
(* GET /recommendations: the pagination block of the response.             *)
(***************************************************************************)
\* "has_more": len(recommendations) == limit
has_more(recommendations, limit) == Len(recommendations) = limit

(***************************************************************************)
(* C30: has_more of a response is true exactly when the full list of the   *)
(* fingerprint, the one the page was sliced from, has a creator at a       *)
(* position offset + limit or later.                                       *)
(***************************************************************************)
C30_HasMoreExact ==
    \A row \in cache :
        (/\ last.status = 200
         /\ \/ last.path = "hit" /\ row.id = last.read
            \/ last.path = "fresh" /\ row.id = last.wrote
         /\ last.ret = Slice(json_loads(row.creator_ids), last.offset, last.limit)) =>
            (has_more(last.ret, last.limit) <=>
                Len(json_loads(row.creator_ids)) > last.offset + last.limit)

====
